---- MODULE Spec2Model ----
(***************************************************************************)
(* Model of pymor.algorithms.tr: the adaptive trust-region loop            *)
(* trust_region() and the surrogate TRSurrogate it drives.                 *)
(*                                                                         *)
(* The specifications share the variables:                                 *)
(*   SurrogateSpec  a client calling the TRSurrogate methods in any order  *)
(*   Spec           one run of trust_region()                              *)
(*   RadiusSpec     trust_region() with shrink factors in (0, 1)           *)
(*   WildSpec       trust_region() on a rom with non-finite outputs        *)
(*   ExactSpec      trust_region() on a rom that reproduces the fom        *)
(*   FairSpec       trust_region() with every step eventually taken        *)
(*   LineSearchSpec trust_region() with the subproblem's criterion calls   *)
(*                                                                         *)
(* Python objects that are mutated in place (reductors) carry an identity  *)
(* "id"; a reduced model (rom) carries the id of the reductor that built   *)
(* it and the basis it was reduced with.  Outputs are small integers or    *)
(* one of inf, -inf, nan; the radius and shrink_factor are binary floats   *)
(* with a significand of Precision bits.                                   *)
(***************************************************************************)
EXTENDS Integers, Sequences, FiniteSets, TLC

\* ------------------------------------------------------------------ bounds

\* miniter and maxiter are drawn from 0..MaxIter
MaxIter == 2
\* bits of a float's significand
Precision == 4

\* ------------------------------------------------- values of the program

\* np.inf: the initial first_order_criticality and a non-finite mu / norm
Inf == 1000

\* parameter values: two points of the parameter space and a non-finite one
FiniteMus == {0, 1}
Mus == FiniteMus \cup {Inf}
\* -np.inf and np.nan, as values a reduced model's output may take
NegInf == 0 - Inf
NaN == 2 * Inf
NonFinite == {Inf, NegInf, NaN}
\* values of fom.output, rom.output
Outputs == {0, 1}
\* the outputs of a reduced model that also returns non-finite values
WildOutputs == {0} \cup NonFinite
\* estimate_output_error is a nonnegative bound
Errors == {0, 1}
\* first-order criticality values computed on acceptance
Focs == {0, 1}

\* Python None and an attribute that was never assigned
None == [id |-> 0, basis |-> {}]
Unset == [id |-> 0 - 1, basis |-> {}]

\* outcomes of the try block of extend: both calls succeed, extend_basis
\* raises, or extend_basis succeeds and reduce raises
Outcomes == {"ok", "extend_basis raises", "reduce raises"}

NoExc == "none"
AssertionError == "AssertionError"
AttributeError == "AttributeError"
BudgetError == "TRError: Failed to converge after the maximum amount of iterations."
NonFiniteError == "TRError: Failed to converge."

\* ---------------------------------------------------------- TRSurrogate

\* the reductor object handed to TRSurrogate(reductor, initial_guess)
CallerReductor == [id |-> 1, basis |-> {}]

\* the ids of the objects the surrogate or its caller still refer to
LiveIds(s) == {s.caller.id, s.reductor.id, s.new_reductor.id}

\* mutant: the reductor itself where the copy is meant
aliascopy(s) == s.reductor

\* copy.deepcopy(self.reductor): a new object with the same content
deepcopy(s) ==
    LET fresh == CHOOSE i \in 1..(Cardinality(LiveIds(s)) + 1) :
                    /\ i \notin LiveIds(s)
                    /\ \A j \in 1..(i - 1) : j \in LiveIds(s)
    IN [id |-> fresh, basis |-> s.reductor.basis]

\* obj.extend_basis(U_h_mu) mutates obj in place: every reference to the
\* object sees the enlarged basis
MutateRef(ref, id, mu) ==
    IF ref.id = id /\ id > 0 THEN [ref EXCEPT !.basis = @ \cup {mu}] ELSE ref

extend_basis(s, id, mu) ==
    [s EXCEPT !.caller = MutateRef(@, id, mu),
              !.reductor = MutateRef(@, id, mu),
              !.new_reductor = MutateRef(@, id, mu)]

\* reductor.reduce(): the reduced model of the reductor's current basis
reduce(red) == [id |-> red.id, basis |-> red.basis]

\* mutant: the fallback restores new_rom and leaves the copy in new_reductor
extend_keeps_copy(s, mu, outcome) ==
    LET s1 == [s EXCEPT !.new_reductor = deepcopy(s)]
        s2 == IF outcome = "extend_basis raises" THEN s1
              ELSE extend_basis(s1, s1.new_reductor.id, mu)
    IN IF outcome = "ok"
       THEN [s |-> [s2 EXCEPT !.new_rom = reduce(s2.new_reductor)], exc |-> NoExc, solves |-> 1]
       ELSE IF s2.rom = Unset
            THEN [s |-> s2, exc |-> AttributeError, solves |-> 1]
            ELSE [s |-> [s2 EXCEPT !.new_rom = s2.rom], exc |-> NoExc, solves |-> 1]

\* TRSurrogate.extend(mu); the result is the surrogate, the exception that
\* leaves the method, if any, and the number of fom.solve calls (line 296)
extend(s, mu, outcome) ==
    LET s1 == [s EXCEPT !.new_reductor = deepcopy(s)]
        s2 == IF outcome = "extend_basis raises" THEN s1
              ELSE extend_basis(s1, s1.new_reductor.id, mu)
    IN IF outcome = "ok"
       THEN [s |-> [s2 EXCEPT !.new_rom = reduce(s2.new_reductor)], exc |-> NoExc, solves |-> 1]
       ELSE \* except Exception: fall back to the committed pair
            LET s3 == [s2 EXCEPT !.new_reductor = s2.reductor]
            IN IF s3.rom = Unset
               THEN [s |-> s3, exc |-> AttributeError, solves |-> 1]
               ELSE [s |-> [s3 EXCEPT !.new_rom = s3.rom], exc |-> NoExc, solves |-> 1]

\* mutant: accept without its assertion
accept_unchecked(s) ==
    [s |-> [s EXCEPT !.rom = s.new_rom, !.reductor = s.new_reductor,
                     !.new_rom = None, !.new_reductor = None],
     exc |-> NoExc, solves |-> 0]

\* mutant: accept that promotes the rom and forgets the reductor
accept_rom_only(s) ==
    IF s.new_rom = None
    THEN [s |-> s, exc |-> AssertionError, solves |-> 0]
    ELSE [s |-> [s EXCEPT !.rom = s.new_rom,
                          !.new_rom = None, !.new_reductor = None],
          exc |-> NoExc, solves |-> 0]

\* TRSurrogate.accept()
accept(s) ==
    IF s.new_rom = None
    THEN [s |-> s, exc |-> AssertionError, solves |-> 0]
    ELSE [s |-> [s EXCEPT !.rom = s.new_rom, !.reductor = s.new_reductor,
                          !.new_rom = None, !.new_reductor = None],
          exc |-> NoExc, solves |-> 0]

\* mutant: reject that discards nothing
reject_noop(s) == [s |-> s, exc |-> NoExc, solves |-> 0]

\* mutant: reject that clears new_rom and forgets new_reductor
reject_rom_only(s) == [s |-> [s EXCEPT !.new_rom = None], exc |-> NoExc, solves |-> 0]

\* TRSurrogate.reject()
reject(s) ==
    [s |-> [s EXCEPT !.new_rom = None, !.new_reductor = None], exc |-> NoExc, solves |-> 0]

\* TRSurrogate.new_rom_output(mu): the exception of its first assertion
new_rom_output(s) ==
    [s |-> s, exc |-> IF s.new_rom = None THEN AssertionError ELSE NoExc, solves |-> 0]

\* TRSurrogate.__init__(reductor, initial_guess)
TRSurrogateInit(reductor, initial_guess, outcome) ==
    LET s0 == [caller |-> reductor, reductor |-> reductor, rom |-> Unset,
               new_reductor |-> Unset, new_rom |-> Unset]
        e == extend(s0, initial_guess, outcome)
        a == accept(e.s)
    IN IF e.exc # NoExc THEN e
       ELSE IF a.exc # NoExc THEN [a EXCEPT !.solves = e.solves]
       ELSE [s |-> [a.s EXCEPT !.new_reductor = None, !.new_rom = None],
             exc |-> NoExc, solves |-> e.solves]

\* the object before TRSurrogate(...) has run
NoSurrogate ==
    [caller |-> CallerReductor, reductor |-> Unset, rom |-> Unset,
     new_reductor |-> Unset, new_rom |-> Unset]

VARIABLES
    surrogate,      \* the TRSurrogate's fields and the caller's reductor
    call,           \* the last surrogate method called and how it ended
    extended,       \* an extend has returned since the last accept/reject
    before          \* the surrogate as it was before the last method call

svars == <<surrogate, call, extended, before>>

\* the committed and the pending pair
Committed(s) == <<s.reductor, s.rom>>
Pending(s) == <<s.new_reductor, s.new_rom>>
HasPending(s) == s.new_rom # None /\ s.new_reductor # None

\* what the log keeps of the try block of extend: whether it raised
Tried(outcome) == IF outcome = "ok" THEN "ok" ELSE "raised"

NoCall == [name |-> "none", mu |-> 0, tried |-> "ok", exc |-> NoExc, solves |-> 0]

\* one method call of a client: the call's log, the surrogate it leaves
Called(name, m, outcome, r) ==
    /\ surrogate' = r.s
    /\ call' = [name |-> name, mu |-> m, tried |-> Tried(outcome), exc |-> r.exc,
                solves |-> r.solves]
    /\ before' = surrogate
    /\ extended' = IF r.exc # NoExc THEN extended
                   ELSE IF name = "extend" THEN TRUE
                   ELSE IF name \in {"accept", "reject"} THEN FALSE
                   ELSE extended

\* the same call made by trust_region, which keeps no copy of the surrogate
Logged(name, m, outcome, r) ==
    /\ surrogate' = r.s
    /\ call' = [name |-> name, mu |-> m, tried |-> Tried(outcome), exc |-> r.exc,
                solves |-> r.solves]
    /\ before' = before
    /\ extended' = IF r.exc # NoExc THEN extended
                   ELSE IF name = "extend" THEN TRUE
                   ELSE IF name \in {"accept", "reject"} THEN FALSE
                   ELSE extended

\* ------------------------------------------------------------ arithmetic

RECURSIVE Pow(_, _)
Pow(b, e) == IF e = 0 THEN 1 ELSE b * Pow(b, e - 1)

\* radius and shrink_factor are Python floats: binary floating point, here
\* with a significand of Precision bits (a double has 53) and no bound on
\* the exponent.  [m |-> m, e |-> e] is the number m * 2^e, with m = 0 or
\* 2^(Precision-1) <= m < 2^Precision.

\* the float nearest to (n / d) * 2^e, ties to the even significand
RECURSIVE Round(_, _, _)
Round(n, d, e) ==
    IF n = 0 THEN [m |-> 0, e |-> 0]
    ELSE IF n >= d * Pow(2, Precision) THEN Round(n, 2 * d, e + 1)
    ELSE IF n < d * Pow(2, Precision - 1) THEN Round(2 * n, d, e - 1)
    ELSE LET q == n \div d
             r == n % d
             m == IF 2 * r > d \/ (2 * r = d /\ q % 2 = 1) THEN q + 1 ELSE q
         IN IF m = Pow(2, Precision)
            THEN [m |-> Pow(2, Precision - 1), e |-> e + 1]
            ELSE [m |-> m, e |-> e]

\* the float a decimal literal n/d denotes
Float(n, d) == Round(n, d, 0)

\* radius *= shrink_factor
Times(r, f) == Round(r.m * f.m, 1, r.e + f.e)

\* mutant: the growth multiplies
OverAsTimes(r, f) == Times(r, f)

\* radius /= shrink_factor
Over(r, f) == Round(r.m, f.m, r.e - f.e)

\* mutant: the guard tests for nan only
isnotnan(x) == x # NaN

isfinite(x) == x \notin NonFinite

\* float addition, subtraction and comparisons of outputs: IEEE 754 for the
\* non-finite values, exact for the model's small integers
Plus(a, b) ==
    IF a = NaN \/ b = NaN THEN NaN
    ELSE IF a \in {Inf, NegInf}
         THEN (IF b \in {Inf, NegInf} /\ b # a THEN NaN ELSE a)
    ELSE IF b \in {Inf, NegInf} THEN b
    ELSE a + b

Neg(a) == IF a = NaN THEN NaN ELSE 0 - a

Less(a, b) == a # NaN /\ b # NaN /\ a < b

\* mutant: <= read as <
LessStrict(a, b) == a # NaN /\ b # NaN /\ a < b

LessEq(a, b) == a # NaN /\ b # NaN /\ a <= b

\* np.linalg.norm of a one-dimensional parameter
norm(x) == IF x = NaN THEN NaN ELSE IF x < 0 THEN 0 - x ELSE x

\* mu - old_mu
Minus(a, b) == Plus(a, Neg(b))

\* ---------------------------------------------------------- trust_region

\* the keyword arguments of trust_region and their defaults
DefaultBeta == Float(19, 20)
DefaultRadius == Float(1, 10)
DefaultShrinkFactor == Float(1, 2)
\* radius_tol = .75 = 3/4; the model's outputs are integers and the growth
\* test is evaluated exactly
DefaultRadiusTol == [num |-> 3, den |-> 4]
\* shrink_factor: the default and the value the first assertion refuses
ShrinkFactors == {Float(0, 1), DefaultShrinkFactor}

\* the argument reductor, described by what its models compute: the values
\* rom.output may return and, for an exact reductor (rom.output = fom.output
\* everywhere, estimate_output_error = 0), the output functional itself;
\* "output" is read for an exact reductor only
AnyOutput == [m \in Mus |-> 0]
AnyReductor == [rom_outputs |-> Outputs, exact |-> FALSE, output |-> AnyOutput]
WildReductor == [rom_outputs |-> WildOutputs, exact |-> FALSE, output |-> AnyOutput]
ExactReductors ==
    {[rom_outputs |-> Outputs, exact |-> TRUE, output |-> f] : f \in [Mus -> Outputs]}

Params ==
    [reductor : {AnyReductor},
     initial_guess : {0},
     beta : {DefaultBeta},
     radius : {DefaultRadius},
     shrink_factor : ShrinkFactors,
     miniter : 0..MaxIter,
     maxiter : 0..MaxIter,
     tol_criticality : Focs,
     radius_tol : {DefaultRadiusTol}]

VARIABLES
    params,         \* the arguments of the call
    pc,             \* where the call is
    exc,            \* the exception the call raised
    iteration,
    mu,
    old_mu,
    mu_norm,
    radius,
    rejected,
    first_order_criticality,
    old_rom_output,
    old_fom_output,
    sub_data,       \* the trace of the last subproblem
    compare_output,
    estimate_output,
    current_output,
    current_fom_output,
    data,           \* data['mus'], data['subproblem_data']
    update_norms,
    foc_norms,
    result,         \* what the call returned
    iter_start,     \* mu and the committed pair when the iteration began
    shrinks,        \* number of radius *= shrink_factor so far
    growths,        \* number of radius /= shrink_factor so far
    bfgs_calls,     \* number of error_aware_bfgs calls so far
    accepted,       \* number of passes that accepted their candidate
    rejections,     \* number of passes that rejected their candidate
    calls,          \* the collaborator calls of the current pass, in order
    line_search     \* the last call of the criterion by the subproblem solver

outvars == <<compare_output, estimate_output, current_output,
             current_fom_output, sub_data>>
histvars == <<data, update_norms, foc_norms>>
ghostvars == <<iter_start, shrinks, growths, bfgs_calls, accepted,
               rejections, calls, line_search>>
tvars == <<params, pc, exc, iteration, mu, old_mu, mu_norm, radius, rejected,
           first_order_criticality, old_rom_output, old_fom_output, outvars,
           histvars, result, ghostvars>>
vars == <<svars, tvars>>

NoResult == [mu |-> 0, mus |-> <<>>, subproblem_data |-> <<>>,
             update_norms |-> <<>>, foc_norms |-> <<>>, iterations |-> 0]

NoIterStart == [mu |-> 0, committed |-> <<Unset, Unset>>]

\* no call of the criterion in this pass yet
NoLineSearch ==
    [called |-> FALSE, new_mu |-> 0, rom |-> Unset, output_error |-> 0,
     current_value |-> 0, result |-> FALSE]

\* mutant: the criticality starts at 0
TRInitCritical(p) ==
    /\ params = p
    /\ pc = "start"
    /\ exc = NoExc
    /\ iteration = 0
    /\ mu = p.initial_guess
    /\ old_mu = 0
    /\ mu_norm = 0
    /\ radius = p.radius
    /\ rejected = FALSE
    /\ first_order_criticality = 0
    /\ old_rom_output = 0
    /\ old_fom_output = 0
    /\ sub_data = [mus |-> <<>>]
    /\ compare_output = 0
    /\ estimate_output = 0
    /\ current_output = 0
    /\ current_fom_output = 0
    /\ data = [subproblem_data |-> <<>>, mus |-> <<>>]
    /\ update_norms = <<>>
    /\ foc_norms = <<>>
    /\ result = NoResult
    /\ iter_start = NoIterStart
    /\ shrinks = 0
    /\ growths = 0
    /\ bfgs_calls = 0
    /\ accepted = 0
    /\ rejections = 0
    /\ calls = <<>>
    /\ line_search = NoLineSearch

TRInit(p) ==
    /\ params = p
    /\ pc = "start"
    /\ exc = NoExc
    /\ iteration = 0
    /\ mu = p.initial_guess
    /\ old_mu = 0
    /\ mu_norm = 0
    /\ radius = p.radius
    /\ rejected = FALSE
    /\ first_order_criticality = Inf
    /\ old_rom_output = 0
    /\ old_fom_output = 0
    /\ sub_data = [mus |-> <<>>]
    /\ compare_output = 0
    /\ estimate_output = 0
    /\ current_output = 0
    /\ current_fom_output = 0
    /\ data = [subproblem_data |-> <<>>, mus |-> <<>>]
    /\ update_norms = <<>>
    /\ foc_norms = <<>>
    /\ result = NoResult
    /\ iter_start = NoIterStart
    /\ shrinks = 0
    /\ growths = 0
    /\ bfgs_calls = 0
    /\ accepted = 0
    /\ rejections = 0
    /\ calls = <<>>
    /\ line_search = NoLineSearch

SurrogateInit ==
    /\ surrogate = NoSurrogate
    /\ call = NoCall
    /\ extended = FALSE
    /\ before = NoSurrogate

Init == SurrogateInit /\ \E p \in Params : TRInit(p)

Raise(e) == pc' = "raised" /\ exc' = e

\* the values surrogate.rom_output, new_rom_output, fom_output and
\* estimate_output_error may return at the point m
RomOutputs(m) ==
    IF params.reductor.exact THEN {params.reductor.output[m]}
    ELSE params.reductor.rom_outputs
FomOutputs(m) ==
    IF params.reductor.exact THEN {params.reductor.output[m]} ELSE Outputs
OutputErrors == IF params.reductor.exact THEN {0} ELSE Errors

\* lines 104-138: the assertion, the surrogate, the first outputs
Start ==
    /\ pc = "start"
    /\ IF params.shrink_factor.m = 0
       THEN /\ Raise(AssertionError)
            /\ UNCHANGED <<svars, mu_norm, data, old_rom_output, old_fom_output>>
       ELSE \E outcome \in Outcomes :
              LET r == TRSurrogateInit(CallerReductor, mu, outcome) IN
              /\ Logged("__init__", mu, outcome, r)
              /\ IF r.exc # NoExc
                 THEN /\ Raise(r.exc)
                      /\ UNCHANGED <<mu_norm, data, old_rom_output, old_fom_output>>
                 ELSE /\ pc' = "check"
                      /\ exc' = exc
                      /\ mu_norm' = norm(mu)
                      /\ data' = [subproblem_data |-> <<>>, mus |-> <<mu>>]
                      /\ old_rom_output' \in RomOutputs(mu)
                      /\ old_fom_output' \in FomOutputs(mu)
    /\ UNCHANGED <<params, iteration, mu, old_mu, radius, rejected,
                   first_order_criticality, outvars, update_norms, foc_norms,
                   result, ghostvars>>

\* mutant: the budget test one pass late
BudgetExhaustedLate == iteration > params.maxiter

\* mutant: the budget is tested against a hard-wired default
BudgetOfDefault == iteration >= MaxIter + 1

\* mutant: the termination tests start one pass after miniter
MinIterExceeded == iteration > params.miniter

\* the tests of lines 143, 144 and 149
MinIterReached == iteration >= params.miniter
Converged == first_order_criticality < params.tol_criticality
BudgetExhausted == iteration >= params.maxiter

\* mutant: the budget test comes before the criticality test
CheckBudgetFirst ==
    /\ pc = "check"
    /\ IF MinIterReached /\ Converged /\ ~BudgetExhausted
       THEN /\ pc' = "returned"
            /\ result' = [mu |-> mu, mus |-> data.mus,
                          subproblem_data |-> data.subproblem_data,
                          update_norms |-> update_norms, foc_norms |-> foc_norms,
                          iterations |-> iteration]
            /\ exc' = exc
       ELSE IF MinIterReached /\ BudgetExhausted
       THEN Raise(BudgetError) /\ result' = result
       ELSE pc' = "propose" /\ exc' = exc /\ result' = result
    /\ rejected' = FALSE
    /\ UNCHANGED <<svars, params, iteration, mu, old_mu, mu_norm, radius,
                   first_order_criticality, old_rom_output, old_fom_output,
                   outvars, histvars, ghostvars>>

\* lines 143-151 and 242-248: the termination check, the return
Check ==
    /\ pc = "check"
    /\ IF MinIterReached /\ Converged
       THEN /\ pc' = "returned"
            /\ result' = [mu |-> mu, mus |-> data.mus,
                          subproblem_data |-> data.subproblem_data,
                          update_norms |-> update_norms, foc_norms |-> foc_norms,
                          iterations |-> iteration]
            /\ exc' = exc
       ELSE IF MinIterReached /\ BudgetExhausted
       THEN Raise(BudgetError) /\ result' = result
       ELSE pc' = "propose" /\ exc' = exc /\ result' = result
    /\ rejected' = FALSE
    /\ UNCHANGED <<svars, params, iteration, mu, old_mu, mu_norm, radius,
                   first_order_criticality, old_rom_output, old_fom_output,
                   outvars, histvars, ghostvars>>

\* mutant: the reference point is always the starting point
index_of_start(sd) == 1

\* line 167, as a position of the (1-based) sequence
index(sd) == IF Len(sd.mus) > 1 THEN 2 ELSE 1

\* lines 153-170: the subproblem and the three surrogate evaluations
Propose ==
    /\ pc = "propose"
    /\ iteration' = iteration + 1
    /\ old_mu' = mu
    /\ mu' \in Mus
    /\ \E agc \in FiniteMus :
         sub_data' \in {[mus |-> <<mu>>], [mus |-> <<mu, agc>>]}
    /\ estimate_output' \in OutputErrors
    /\ current_output' \in RomOutputs(mu')
    \* rom.output is a function: the same point gives the same output
    /\ compare_output' \in
         (IF sub_data'.mus[index(sub_data')] = mu' THEN {current_output'}
          ELSE RomOutputs(sub_data'.mus[index(sub_data')]))
    /\ bfgs_calls' = bfgs_calls + 1
    /\ calls' = <<"error_aware_bfgs", "rom_output", "estimate_output_error",
                  "rom_output">>
    /\ iter_start' = [mu |-> mu, committed |-> Committed(surrogate)]
    /\ pc' = "classify"
    /\ UNCHANGED <<svars, params, exc, mu_norm, radius, rejected,
                   first_order_criticality, old_rom_output, old_fom_output,
                   current_fom_output, line_search,
                   histvars, result, shrinks, growths, accepted, rejections>>

\* output_error / abs(current_value) of numpy floats, for finite operands
\* with output_error >= 0: the quotient num/den, where den = 0 stands for
\* inf (num > 0) and for nan (0/0)
Quotient(output_error, current_value) ==
    [num |-> output_error, den |-> norm(current_value)]

\* q >= x for a quotient q and a float x; a comparison with nan is False
GreaterEq(q, x) ==
    IF q.den = 0 THEN q.num > 0
    ELSE IF x.e >= 0 THEN q.num >= q.den * x.m * Pow(2, x.e)
    ELSE q.num * Pow(2, 0 - x.e) >= q.den * x.m

\* mutant: the criterion reads the radius the call started with
criterion_of_initial_radius(output_error, current_value) ==
    GreaterEq(Quotient(output_error, current_value),
              Times(params.beta, params.radius))

\* lines 118-122: the closure reads the radius of the enclosing call when it
\* is called; True reports that the error bound is exceeded
error_aware_line_search_criterion(output_error, current_value) ==
    GreaterEq(Quotient(output_error, current_value),
              Times(params.beta, radius))

\* lines 159-164: while error_aware_bfgs runs it calls error_criterion on
\* trial points; surrogate.estimate_output_error asks the committed rom
LineSearch ==
    /\ pc = "propose"
    /\ \E new_mu \in FiniteMus, output_error \in OutputErrors :
       \E current_value \in RomOutputs(new_mu) :
         line_search' =
           [called |-> TRUE, new_mu |-> new_mu, rom |-> surrogate.rom,
            output_error |-> output_error, current_value |-> current_value,
            result |-> error_aware_line_search_criterion(output_error,
                                                         current_value)]
    /\ UNCHANGED <<svars, params, pc, exc, iteration, mu, old_mu, mu_norm,
                   radius, rejected, first_order_criticality, old_rom_output,
                   old_fom_output, outvars, histvars, result, iter_start,
                   shrinks, growths, bfgs_calls, accepted, rejections, calls>>

\* mutant: the optimistic test admits equality
OptimisticOrEqual == LessEq(Plus(current_output, estimate_output), compare_output)

\* the comparisons of lines 173 and 183
Optimistic == Less(Plus(current_output, estimate_output), compare_output)
Pessimistic == Less(compare_output, Minus(current_output, estimate_output))

\* k * x for k > 0
Scaled(k, x) == IF x \in NonFinite THEN x ELSE k * x

\* fom_output_diff >= radius_tol * rom_output_diff
GrowthTest(fom_output, output) ==
    LessEq(Scaled(params.radius_tol.num, Minus(old_rom_output, output)),
           Scaled(params.radius_tol.den, Minus(old_fom_output, fom_output)))

\* mutant: a failed growth test shrinks the radius
GrowOrShrink(fom_output, output) ==
    IF GrowthTest(fom_output, output)
    THEN radius' = Over(radius, params.shrink_factor) /\ growths' = growths + 1
    ELSE radius' = Times(radius, params.shrink_factor) /\ growths' = growths

\* lines 178-180 and 197-199: radius /= shrink_factor if the test holds
MaybeGrow(fom_output, output) ==
    IF GrowthTest(fom_output, output)
    THEN radius' = Over(radius, params.shrink_factor) /\ growths' = growths + 1
    ELSE UNCHANGED <<radius, growths>>

\* mutant: the radius is shrunk twice
ShrinkTwice ==
    /\ rejected' = TRUE
    /\ radius' = Times(Times(radius, params.shrink_factor), params.shrink_factor)
    /\ shrinks' = shrinks + 1

\* lines 185-187 and 204-206: reject the candidate, radius *= shrink_factor
Shrink ==
    /\ rejected' = TRUE
    /\ radius' = Times(radius, params.shrink_factor)
    /\ shrinks' = shrinks + 1

classifyframe == <<params, exc, iteration, mu, old_mu, mu_norm,
                   first_order_criticality, old_rom_output, old_fom_output,
                   compare_output, estimate_output, sub_data, histvars, result,
                   iter_start, bfgs_calls, accepted, rejections,
                   line_search>>

\* lines 173-182
ClassifyOptimistic ==
    /\ pc = "classify"
    /\ Optimistic
    /\ \E outcome \in Outcomes :
         Logged("extend", mu, outcome, extend(surrogate, mu, outcome))
    /\ current_fom_output' \in FomOutputs(mu)
    /\ MaybeGrow(current_fom_output', current_output)
    /\ calls' = calls \o <<"extend", "fom_output">>
    /\ pc' = "commit"
    /\ UNCHANGED <<classifyframe, rejected, shrinks, current_output>>

\* lines 183-189
ClassifyPessimistic ==
    /\ pc = "classify"
    /\ ~Optimistic
    /\ Pessimistic
    /\ Shrink
    /\ pc' = "commit"
    /\ UNCHANGED <<classifyframe, svars, growths, current_output,
                   current_fom_output, calls>>

\* lines 190-208
ClassifyAmbiguous ==
    /\ pc = "classify"
    /\ ~Optimistic
    /\ ~Pessimistic
    /\ \E outcome \in Outcomes :
         LET e == extend(surrogate, mu, outcome)
             o == new_rom_output(e.s)
         IN /\ surrogate' = o.s
            /\ call' = [name |-> "new_rom_output", mu |-> mu,
                        tried |-> Tried(outcome), exc |-> o.exc,
                        solves |-> o.solves]
            /\ before' = before
            /\ extended' = TRUE
            \* the fallback rom is the committed rom: the same output
            /\ current_output' \in
                 (IF e.s.new_rom = e.s.rom THEN {current_output}
                  ELSE RomOutputs(mu))
            /\ IF LessEq(current_output', compare_output)
               THEN /\ current_fom_output' \in FomOutputs(mu)
                    /\ MaybeGrow(current_fom_output', current_output')
                    /\ calls' = calls \o <<"extend", "new_rom_output", "fom_output">>
                    /\ UNCHANGED <<rejected, shrinks>>
               ELSE /\ Shrink
                    /\ calls' = calls \o <<"extend", "new_rom_output">>
                    /\ UNCHANGED <<growths, current_fom_output>>
    /\ pc' = "commit"
    /\ UNCHANGED classifyframe

\* mutant: the subproblem trace of an accepted pass is not recorded
CommitAcceptWithoutTrace ==
    /\ pc = "commit"
    /\ ~rejected
    /\ data' = [data EXCEPT !.mus = Append(@, mu)]
    /\ mu_norm' = norm(mu)
    /\ update_norms' = Append(update_norms, norm(Minus(mu, old_mu)))
    /\ first_order_criticality' \in (IF isfinite(mu) THEN Focs ELSE {Inf})
    /\ foc_norms' = Append(foc_norms, first_order_criticality')
    /\ LET a == accept(surrogate) IN
         /\ Logged("accept", 0, "ok", a)
         /\ IF a.exc # NoExc
            THEN Raise(a.exc) /\ old_rom_output' = old_rom_output
            ELSE pc' = "guard" /\ exc' = exc /\ old_rom_output' = current_output
    /\ calls' = calls \o <<"fom_gradient", "accept">>
    /\ accepted' = accepted + 1
    /\ UNCHANGED <<params, iteration, mu, old_mu, radius, rejected,
                   old_fom_output, outvars, result, iter_start, shrinks,
                   growths, bfgs_calls, rejections, line_search>>

\* lines 211-226: the candidate is accepted
CommitAccept ==
    /\ pc = "commit"
    /\ ~rejected
    /\ data' = [data EXCEPT !.mus = Append(@, mu),
                            !.subproblem_data = Append(@, sub_data)]
    /\ mu_norm' = norm(mu)
    /\ update_norms' = Append(update_norms, norm(Minus(mu, old_mu)))
    /\ first_order_criticality' \in (IF isfinite(mu) THEN Focs ELSE {Inf})
    /\ foc_norms' = Append(foc_norms, first_order_criticality')
    /\ LET a == accept(surrogate) IN
         /\ Logged("accept", 0, "ok", a)
         /\ IF a.exc # NoExc
            THEN Raise(a.exc) /\ old_rom_output' = old_rom_output
            ELSE pc' = "guard" /\ exc' = exc /\ old_rom_output' = current_output
    /\ calls' = calls \o <<"fom_gradient", "accept">>
    /\ accepted' = accepted + 1
    /\ UNCHANGED <<params, iteration, mu, old_mu, radius, rejected,
                   old_fom_output, outvars, result, iter_start, shrinks,
                   growths, bfgs_calls, rejections, line_search>>

\* mutant: the rejected candidate stays the working mu
CommitRejectKeepsCandidate ==
    /\ pc = "commit"
    /\ rejected
    /\ mu' = mu
    /\ Logged("reject", 0, "ok", reject(surrogate))
    /\ pc' = "guard"
    /\ calls' = Append(calls, "reject")
    /\ rejections' = rejections + 1
    /\ UNCHANGED <<params, exc, iteration, old_mu, mu_norm, radius, rejected,
                   first_order_criticality, old_rom_output, old_fom_output,
                   outvars, histvars, result, iter_start, shrinks, growths,
                   bfgs_calls, accepted, line_search>>

\* lines 227-230: the candidate is rejected
CommitReject ==
    /\ pc = "commit"
    /\ rejected
    /\ mu' = old_mu
    /\ Logged("reject", 0, "ok", reject(surrogate))
    /\ pc' = "guard"
    /\ calls' = Append(calls, "reject")
    /\ rejections' = rejections + 1
    /\ UNCHANGED <<params, exc, iteration, old_mu, mu_norm, radius, rejected,
                   first_order_criticality, old_rom_output, old_fom_output,
                   outvars, histvars, result, iter_start, shrinks, growths,
                   bfgs_calls, accepted, line_search>>

\* lines 239-240, the end of one pass of the loop.  The names bound inside
\* the pass (old_mu, sub_data, the outputs) are assigned again before
\* the next pass reads them: the model clears them here
Guard ==
    /\ pc = "guard"
    /\ IF ~isfinite(mu_norm)
       THEN Raise(NonFiniteError)
       ELSE pc' = "check" /\ exc' = exc
    /\ old_mu' = 0
    /\ sub_data' = [mus |-> <<>>]
    /\ compare_output' = 0
    /\ estimate_output' = 0
    /\ current_output' = 0
    /\ current_fom_output' = 0
    /\ iter_start' = NoIterStart
    /\ calls' = <<>>
    /\ line_search' = NoLineSearch
    /\ UNCHANGED <<svars, params, iteration, mu, mu_norm, radius,
                   rejected, first_order_criticality, old_rom_output,
                   old_fom_output, histvars, result, shrinks, growths,
                   bfgs_calls, accepted, rejections>>

Next ==
    \/ Start
    \/ Check
    \/ Propose
    \/ ClassifyOptimistic
    \/ ClassifyPessimistic
    \/ ClassifyAmbiguous
    \/ CommitAccept
    \/ CommitReject
    \/ Guard

Spec == Init /\ [][Next]_vars

\* trust_region called with every pair of miniter and maxiter and a
\* tolerance the criticality can reach
FairParams ==
    [reductor : {AnyReductor},
     initial_guess : {0},
     beta : {DefaultBeta},
     radius : {DefaultRadius},
     shrink_factor : {DefaultShrinkFactor},
     miniter : 0..MaxIter,
     maxiter : 0..MaxIter,
     tol_criticality : {1},
     radius_tol : {DefaultRadiusTol}]

FairInit == SurrogateInit /\ \E p \in FairParams : TRInit(p)

\* the loop is sequential and every collaborator call returns: a run that
\* can take a step takes it
FairSpec == FairInit /\ [][Next]_vars /\ WF_vars(Next)

\* trust_region called with shrink factors in (0, 1), two of them powers of
\* two, and with the whole iteration budget
RadiusParams ==
    [reductor : {AnyReductor},
     initial_guess : {0},
     beta : {DefaultBeta},
     radius : {DefaultRadius},
     shrink_factor : {Float(1, 2), Float(1, 4), Float(3, 4)},
     miniter : {0},
     maxiter : {MaxIter},
     tol_criticality : {0},
     radius_tol : {DefaultRadiusTol}]

RadiusInit == SurrogateInit /\ \E p \in RadiusParams : TRInit(p)

RadiusSpec == RadiusInit /\ [][Next]_vars

\* trust_region called with a reductor whose reduced models may return
\* non-finite outputs
WildParams ==
    [reductor : {WildReductor},
     initial_guess : {0},
     beta : {DefaultBeta},
     radius : {DefaultRadius},
     shrink_factor : {DefaultShrinkFactor},
     miniter : {0},
     maxiter : {MaxIter},
     tol_criticality : Focs,
     radius_tol : {DefaultRadiusTol}]

WildInit == SurrogateInit /\ \E p \in WildParams : TRInit(p)

WildSpec == WildInit /\ [][Next]_vars

\* trust_region called with an exact reductor: rom.output = fom.output
\* everywhere and estimate_output_error = 0
ExactParams ==
    [reductor : ExactReductors,
     initial_guess : {0},
     beta : {DefaultBeta},
     radius : {DefaultRadius},
     shrink_factor : {DefaultShrinkFactor},
     miniter : {0},
     maxiter : {MaxIter},
     tol_criticality : Focs,
     radius_tol : {DefaultRadiusTol}]

ExactInit == SurrogateInit /\ \E p \in ExactParams : TRInit(p)

ExactSpec == ExactInit /\ [][Next]_vars

\* trust_region with the calls of the criterion made visible, and a radius
\* of the size of the model's error ratios
LineSearchParams ==
    [reductor : {AnyReductor},
     initial_guess : {0},
     beta : {DefaultBeta},
     radius : {Float(2, 1)},
     shrink_factor : {DefaultShrinkFactor},
     miniter : {0},
     maxiter : {MaxIter},
     tol_criticality : {1},
     radius_tol : {DefaultRadiusTol}]

LineSearchInit == SurrogateInit /\ \E p \in LineSearchParams : TRInit(p)

LineSearchNext == Next \/ LineSearch

LineSearchSpec == LineSearchInit /\ [][LineSearchNext]_vars

\* ------------------------------------- a client of the surrogate's methods

\* the arguments that stay untouched while only the surrogate is exercised
IdleParams ==
    [reductor |-> AnyReductor, initial_guess |-> 0, beta |-> DefaultBeta,
     radius |-> DefaultRadius,
     shrink_factor |-> DefaultShrinkFactor, miniter |-> 0, maxiter |-> 0,
     tol_criticality |-> 0, radius_tol |-> DefaultRadiusTol]

SInit == SurrogateInit /\ TRInit(IdleParams)

Constructed == surrogate.rom # Unset

\* TRSurrogate(reductor, initial_guess)
SConstruct ==
    /\ surrogate = NoSurrogate
    /\ call = NoCall
    /\ \E m \in Mus, outcome \in Outcomes :
         Called("__init__", m, outcome, TRSurrogateInit(CallerReductor, m, outcome))
    /\ UNCHANGED tvars

SExtend ==
    /\ Constructed
    /\ \E m \in Mus, outcome \in Outcomes :
         Called("extend", m, outcome, extend(surrogate, m, outcome))
    /\ UNCHANGED tvars

SNewRomOutput ==
    /\ Constructed
    /\ \E m \in Mus : Called("new_rom_output", m, "ok", new_rom_output(surrogate))
    /\ UNCHANGED tvars

SAccept ==
    /\ Constructed
    /\ Called("accept", 0, "ok", accept(surrogate))
    /\ UNCHANGED tvars

SReject ==
    /\ Constructed
    /\ Called("reject", 0, "ok", reject(surrogate))
    /\ UNCHANGED tvars

SNext ==
    \/ SConstruct
    \/ SExtend
    \/ SNewRomOutput
    \/ SAccept
    \/ SReject

SurrogateSpec == SInit /\ [][SNext]_vars

\* =================================================================== claims

\* ---- the surrogate's methods, under SurrogateSpec

\* C1: accept() or new_rom_output() called while no pending pair exists
\* fails with the assertion's error and leaves the surrogate, its committed
\* pair included, as it was.
C1_AcceptWithoutPendingFails ==
    (/\ call.name \in {"accept", "new_rom_output"}
     /\ ~HasPending(before))
    => (/\ call.exc = AssertionError
        /\ Committed(surrogate) = Committed(before)
        /\ surrogate = before)

C1_Witness ==
    /\ call.name = "accept"
    /\ call.exc = AssertionError
    /\ before.rom # Unset
    /\ ~extended

\* C2: on a constructed surrogate a pending pair exists exactly when an
\* extend has returned since the last accept or reject, also when the
\* enrichment of that extend failed.
C2_PendingIffExtended ==
    Constructed => (HasPending(surrogate) <=> extended)

C2_Witness ==
    /\ Constructed
    /\ HasPending(surrogate)
    /\ call.name = "extend"
    /\ call.tried = "raised"

\* C3: accept() with a pending pair makes that pair the committed pair,
\* leaves no pending pair and changes nothing else.
C3_AcceptPromotesPending ==
    (call.name = "accept" /\ HasPending(before))
    => (/\ call.exc = NoExc
        /\ Committed(surrogate) = Pending(before)
        /\ Pending(surrogate) = <<None, None>>
        /\ surrogate.caller = before.caller)

C3_Witness ==
    /\ call.name = "accept"
    /\ HasPending(before)
    /\ Committed(before) # Pending(before)
    /\ before.new_rom.basis # before.rom.basis

\* C4: reject() always succeeds, leaves the committed pair as it was and no
\* pending pair; a second reject(), and a reject() with no pending pair,
\* change nothing.
C4_RejectDiscardsAndIsIdempotent ==
    call.name = "reject"
    => (/\ call.exc = NoExc
        /\ Committed(surrogate) = Committed(before)
        /\ Pending(surrogate) = <<None, None>>
        /\ surrogate.caller = before.caller
        /\ reject(surrogate).s = surrogate
        /\ reject(surrogate).exc = NoExc
        /\ (~HasPending(before) => surrogate = before))

C4_Witness ==
    /\ call.name = "reject"
    /\ HasPending(before)
    /\ Pending(before) # Committed(before)

\* C5: an extend() called while a pending pair exists keeps that pair unless
\* its own enrichment failed (the first pending pair is lost only to reject()
\* or to the fallback of a failed second extend).
C5_SecondExtendKeepsFirstPending ==
    (/\ call.name = "extend"
     /\ HasPending(before)
     /\ call.tried = "ok")
    => Pending(surrogate) = Pending(before)

\* C6: on a constructed surrogate an extend() whose enrichment or reduction
\* fails raises nothing and leaves the committed pair itself as the pending
\* pair, so that accept() then leaves the committed pair as it was before the
\* extend.
C6_FailedExtendIsNoOp ==
    (/\ call.name = "extend"
     /\ call.tried = "raised"
     /\ before.rom # Unset)
    => (/\ call.exc = NoExc
        /\ Pending(surrogate) = Committed(before)
        /\ Committed(surrogate) = Committed(before)
        /\ accept(surrogate).exc = NoExc
        /\ Committed(accept(surrogate).s) = Committed(before))

C6_Witness ==
    /\ call.name = "extend"
    /\ call.tried = "raised"
    /\ before.rom # Unset
    /\ HasPending(before)
    /\ Pending(before) # Committed(before)

\* ---- trust_region, under Spec

\* C7: no failure of basis enrichment or reduction is raised to the caller
\* of trust_region, the first extend of the surrogate's construction
\* included, and once the loop runs a committed pair exists.
C7_ExtensionFailureNeverRaised ==
    /\ call.tried = "raised" => call.exc = NoExc
    /\ pc \in {"check", "propose", "classify", "commit", "guard", "returned"}
         => (surrogate.rom \notin {Unset, None}
             /\ surrogate.reductor \notin {Unset, None})

\* C8: after a rejected pass (pessimistic, or ambiguous and rejected) mu and
\* the committed pair are what they were when the pass began.
C8_RollbackRestores ==
    (pc = "guard" /\ rejected)
    => (/\ mu = iter_start.mu
        /\ Committed(surrogate) = iter_start.committed)

C8_Witness ==
    /\ pc = "guard"
    /\ rejected
    /\ calls[Len(calls)] = "reject"
    /\ \E i \in 1..Len(calls) : calls[i] = "extend"
    /\ iter_start.mu = 1
    /\ iteration = 2

\* the real number radius0 * shrink_factor^shrinks / shrink_factor^growths
\* compared with the float radius: both sides scaled to integers
ExactRadius ==
    LET f == params.shrink_factor
        r0 == params.radius
        a == radius.e + f.e * growths
        b == r0.e + f.e * shrinks
        lo == IF a < b THEN a ELSE b
    IN radius.m * Pow(f.m, growths) * Pow(2, a - lo)
         = r0.m * Pow(f.m, shrinks) * Pow(2, b - lo)

IsPowerOfTwo(f) == f.m = Pow(2, Precision - 1)

\* C9 as stated: after any number of passes the radius equals
\* radius0 * shrink_factor^shrinks / shrink_factor^growths exactly, in any
\* order of the shrinks and growths.
C9_RadiusIsExactProduct == ExactRadius

\* C9 as amended: the radius equals that product exactly when shrink_factor
\* is a power of two; it is changed at most once per pass, by one rounded
\* multiplication or division, and stays positive for shrink_factor in (0, 1).
C9_RadiusIsProductForPowersOfTwo ==
    LET f == params.shrink_factor
    IN /\ IsPowerOfTwo(f) => ExactRadius
       /\ shrinks + growths <= iteration
       /\ (f.m > 0 /\ f.e < 0 /\ f.m < Pow(2, 0 - f.e)) => radius.m > 0

C9_Witness ==
    /\ pc = "check"
    /\ IsPowerOfTwo(params.shrink_factor)
    /\ shrinks = 1
    /\ growths = 1
    /\ radius = params.radius

\* C10: with tol_criticality = 0 and maxiter = N >= miniter the call never
\* returns; it raises the budget error at the check that finds iteration = N,
\* after exactly N subproblem solves (none for N = 0), unless the non-finite
\* guard raised before.
C10_BudgetExhaustion ==
    (params.tol_criticality = 0 /\ params.maxiter >= params.miniter)
    => (/\ pc # "returned"
        /\ bfgs_calls = iteration
        /\ iteration <= params.maxiter
        /\ pc \in {"propose", "classify", "commit", "guard"}
             => bfgs_calls <= params.maxiter
        /\ pc = "propose" => iteration < params.maxiter
        /\ exc = BudgetError
             => (iteration = params.maxiter /\ bfgs_calls = params.maxiter))

C10_Witness ==
    /\ params.tol_criticality = 0
    /\ params.maxiter = 2
    /\ exc = BudgetError
    /\ bfgs_calls = 2

\* C11: once an accepted pass k >= miniter leaves first_order_criticality
\* below tol_criticality, the guard lets the run through, the next check
\* returns with iteration count k, and no subproblem is solved after it; no
\* run returns before the criticality is below the tolerance and miniter
\* passes are done.
C11_CriticalityTermination ==
    [][LET reached == /\ iteration >= params.miniter
                      /\ first_order_criticality < params.tol_criticality
       IN /\ (pc = "guard" /\ ~rejected /\ reached) => pc' = "check"
          /\ (pc = "check" /\ reached)
               => (/\ pc' = "returned"
                   /\ result'.iterations = iteration
                   /\ result'.mu = mu
                   /\ bfgs_calls' = iteration)
          /\ pc' = "returned" => (pc = "check" /\ reached)
          /\ pc' = "propose" => ~reached
      ]_vars

C11_Witness ==
    /\ pc = "returned"
    /\ params.miniter = 1
    /\ params.tol_criticality = 1
    /\ foc_norms = <<1, 0>>
    /\ result.iterations = 2

\* C12: trust_region raises its convergence error in exactly two
\* situations: at a termination check that finds iteration >= maxiter and
\* the criticality not below the tolerance, and at the guard when the norm
\* of mu is not finite.  Both always raise; solving the subproblem,
\* classifying, extending (also when the extension fails), accepting and
\* rejecting never raise.
C12_TwoConvergenceFailures ==
    [][LET checking == pc = "check" /\ iteration >= params.miniter
           exhausted == /\ iteration >= params.maxiter
                        /\ ~(first_order_criticality < params.tol_criticality)
           degenerate == pc = "guard" /\ norm(mu) \in NonFinite
       IN /\ exc' = BudgetError <=> (exc = BudgetError \/ (checking /\ exhausted))
          /\ exc' = NonFiniteError <=> (exc = NonFiniteError \/ degenerate)
          /\ pc \in {"propose", "classify", "commit"} => pc' # "raised"
          /\ (pc' = "raised" /\ pc # "start")
               => exc' \in {BudgetError, NonFiniteError}
      ]_vars

C12_Witness ==
    /\ pc = "raised"
    /\ exc = BudgetError
    /\ rejections = 1
    /\ accepted = 1
    /\ data.mus = <<0, 1>>
    /\ 1 \notin surrogate.reductor.basis

\* C13: at the end of every pass, accepted or rejected, the norm the guard
\* tests is the norm of the working mu, and if it is not finite the run
\* raises the convergence error at once, whatever budget remains, without
\* another termination check or subproblem.
C13_DegeneracyGuard ==
    [][pc = "guard"
       => (/\ mu_norm = norm(mu)
           /\ norm(mu) \in NonFinite
                => (/\ pc' = "raised"
                    /\ exc' = NonFiniteError
                    /\ bfgs_calls' = bfgs_calls)
           /\ norm(mu) \notin NonFinite => pc' = "check")
      ]_vars

C13_Witness ==
    /\ pc = "raised"
    /\ exc = NonFiniteError
    /\ mu = Inf
    /\ iteration = 1
    /\ params.maxiter = 2

\* ---- trust_region with non-finite surrogate outputs, under WildSpec

\* C14: a pass in which the surrogate's output at the candidate mu was not
\* finite ends with the convergence error, whatever budget remains.
C14_NonFiniteOutputRaises ==
    [][(pc = "guard" /\ current_output \in NonFinite)
       => (pc' = "raised" /\ exc' = NonFiniteError)
      ]_vars

\* ---- trust_region, under Spec

\* a is s or s with elements appended
IsPrefix(s, a) == Len(s) <= Len(a) /\ SubSeq(a, 1, Len(s)) = s

\* C15: the record is append-only with one entry per accepted pass:
\* len(mus) = 1 + accepted passes, len(subproblem_data) = len(foc_norms) =
\* len(update_norms) = accepted passes; a rejected pass appends nothing and
\* changes no entry; the iteration counter starts at 0, counts accepted and
\* rejected passes, and is the count returned.
C15_RecordAppendOnly ==
    /\ [](/\ pc = "start" => (iteration = 0 /\ accepted = 0 /\ rejections = 0)
          /\ (pc \notin {"start", "raised"} \/ exc \in {BudgetError, NonFiniteError})
               => (/\ Len(data.mus) = 1 + accepted
                   /\ Len(data.subproblem_data) = accepted
                   /\ Len(foc_norms) = accepted
                   /\ Len(update_norms) = accepted)
          /\ pc \in {"check", "returned", "raised"}
               => iteration = accepted + rejections
          /\ pc = "returned"
               => (/\ result.iterations = accepted + rejections
                   /\ result.mus = data.mus
                   /\ result.subproblem_data = data.subproblem_data
                   /\ result.foc_norms = foc_norms
                   /\ result.update_norms = update_norms))
    /\ [][/\ pc # "start"
               => (/\ IsPrefix(data.mus, data'.mus)
                   /\ IsPrefix(data.subproblem_data, data'.subproblem_data)
                   /\ IsPrefix(foc_norms, foc_norms')
                   /\ IsPrefix(update_norms, update_norms'))
          /\ rejections' # rejections => histvars' = histvars
          /\ pc' = "guard" => accepted' + rejections' = iteration'
         ]_vars

C15_Witness ==
    /\ pc = "returned"
    /\ accepted = 1
    /\ rejections = 1
    /\ Len(result.mus) = 2
    /\ result.iterations = 2

\* C16: on every successful return the record holds the accepted
\* parameters, the norm of each of them (mu_norms), the criticality of each
\* accepted pass, the subproblem traces and the iteration count.
C16_ReturnedRecordComplete ==
    pc = "returned"
    => (/\ {"mus", "mu_norms", "foc_norms", "subproblem_data", "iterations"}
              \subseteq DOMAIN result
        /\ Len(result.mus) = 1 + Len(result.foc_norms)
        /\ Len(result.subproblem_data) = Len(result.foc_norms))

\* ---- trust_region with an exact surrogate, under ExactSpec

\* the branch a classification step took, read from the calls it made
TookOptimistic == calls' = calls \o <<"extend", "fom_output">>
TookAmbiguous ==
    /\ Len(calls') > Len(calls) + 1
    /\ calls'[Len(calls) + 2] = "new_rom_output"

\* C17 as stated: with estimate_output_error = 0 and rom.output = fom.output
\* everywhere, every pass is classified optimistic and grows the radius.
C17_ExactAlwaysOptimistic ==
    [][pc = "classify"
       => (/\ TookOptimistic
           /\ growths' = growths + 1
           /\ radius' = Over(radius, params.shrink_factor))
      ]_vars

\* C17 as amended: with such a surrogate the error estimate decides
\* nothing: a pass is optimistic when S(mu') < S(AGC), ambiguous and then
\* accepted when S(mu') = S(AGC), pessimistic when S(mu') > S(AGC).  A pass
\* with S(mu') <= S(AGC) never shrinks the radius and grows it whenever the
\* output did not increase over the accepted iterates,
\* F(mu') <= F(last accepted mu) <= F(initial mu).
C17_ExactFollowsTheComparison ==
    [][LET F == params.reductor.output IN
       pc = "classify"
       => (/\ estimate_output = 0
           /\ current_output = F[mu]
           /\ compare_output = F[sub_data.mus[index(sub_data)]]
           /\ old_rom_output = F[iter_start.mu]
           /\ old_fom_output = F[params.initial_guess]
           /\ current_output < compare_output => TookOptimistic
           /\ current_output = compare_output => TookAmbiguous
           /\ current_output > compare_output => (calls' = calls /\ rejected')
           /\ current_output <= compare_output
                => (/\ ~rejected'
                    /\ shrinks' = shrinks
                    /\ radius' \in {radius, Over(radius, params.shrink_factor)})
           /\ (/\ current_output <= compare_output
               /\ current_output <= old_rom_output
               /\ old_rom_output <= old_fom_output)
                => (/\ growths' = growths + 1
                    /\ radius' = Over(radius, params.shrink_factor)))
      ]_vars

C17_Witness ==
    /\ pc = "commit"
    /\ params.reductor.exact
    /\ iteration = 2
    /\ Len(sub_data.mus) = 1
    /\ mu = iter_start.mu
    /\ current_output = compare_output
    /\ \E i \in 1..Len(calls) : calls[i] = "new_rom_output"
    /\ ~rejected
    /\ growths = 2

\* ---- termination, under FairSpec

Terminated == pc \in {"returned", "raised"}

\* C18: every run ends, by a return or by an error, and with
\* maxiter >= miniter it has then solved at most maxiter subproblems (the
\* number of solves never decreases).
C18_Terminates ==
    <>(/\ Terminated
       /\ params.maxiter >= params.miniter => bfgs_calls <= params.maxiter)

C18_Witness ==
    /\ Terminated
    /\ exc = BudgetError
    /\ params.miniter = 1
    /\ params.maxiter = 2
    /\ bfgs_calls = 2
    /\ rejections = 2

\* ---- the surrogate protocol inside trust_region, under Spec

\* the positions of the calls of the current pass that went to one of names
Positions(names) == {i \in 1..Len(calls) : calls[i] \in names}

\* C19: after the surrogate's construction every pass makes one subproblem
\* solve, at most one extend and then exactly one accept or reject, the
\* last call of the pass; no pending pair exists when a pass starts, when
\* the subproblem is solved, when extend is called, when the pass ends and
\* when the run returns or raises its convergence error.
C19_OneExtendOneVerdictPerPass ==
    /\ pc \in {"check", "propose", "classify", "guard", "returned"}
         => ~HasPending(surrogate)
    /\ exc \in {BudgetError, NonFiniteError} => ~HasPending(surrogate)
    /\ pc = "commit" => (HasPending(surrogate) <=> Positions({"extend"}) # {})
    /\ pc \in {"classify", "commit", "guard"}
         => (/\ Positions({"error_aware_bfgs"}) = {1}
             /\ Cardinality(Positions({"extend"})) <= 1
             /\ \A i \in Positions({"extend"}) : i > 1)
    /\ pc \in {"classify", "commit"} => Positions({"accept", "reject"}) = {}
    /\ pc = "guard" => Positions({"accept", "reject"}) = {Len(calls)}

C19_Witness ==
    /\ pc = "guard"
    /\ iteration = 2
    /\ accepted = 1
    /\ Positions({"extend"}) # {}
    /\ calls[Len(calls)] = "reject"
    /\ Committed(surrogate) = iter_start.committed

\* the calls of a pass that took the optimistic branch, up to the extend
OptimisticCalls ==
    <<"error_aware_bfgs", "rom_output", "estimate_output_error", "rom_output",
      "extend", "fom_output">>

\* C20: whenever S(mu') + error(mu') < S(AGC) on the pre-extension
\* surrogate, extend is called at mu' (a successful extension has mu' in
\* its basis), the candidate is not rejected and the radius is kept or
\* grown, never shrunk; the pass then commits the pending pair, keeps mu'
\* as mu and appends it to the history.
C20_OptimisticCase ==
    [][/\ (pc = "classify"
            /\ Less(Plus(current_output, estimate_output), compare_output))
           => (/\ pc' = "commit"
               /\ calls' = OptimisticCalls
               /\ call'.name = "extend" /\ call'.mu = mu /\ call'.exc = NoExc
               /\ HasPending(surrogate')
               /\ Committed(surrogate') = Committed(surrogate)
               /\ call'.tried = "ok"
                    => (/\ mu \in surrogate'.new_reductor.basis
                        /\ mu \in surrogate'.new_rom.basis)
               /\ ~rejected'
               /\ shrinks' = shrinks
               /\ radius' \in {radius, Over(radius, params.shrink_factor)})
       /\ (pc = "commit" /\ calls = OptimisticCalls)
           => (/\ pc' = "guard"
               /\ Committed(surrogate') = Pending(surrogate)
               /\ ~HasPending(surrogate')
               /\ mu' = mu
               /\ data'.mus = Append(data.mus, mu)
               /\ accepted' = accepted + 1
               /\ radius' = radius
               /\ shrinks' = shrinks)
      ]_vars

C20_Witness ==
    /\ pc = "guard"
    /\ calls = OptimisticCalls \o <<"fom_gradient", "accept">>
    /\ mu = 1
    /\ iter_start.mu = 0
    /\ 1 \in surrogate.reductor.basis
    /\ data.mus = <<0, 1>>
    /\ growths = 0
    /\ radius = params.radius

\* the calls of a pass up to the classification
ProposalCalls ==
    <<"error_aware_bfgs", "rom_output", "estimate_output_error", "rom_output">>

\* C21: whenever the optimistic test fails and S(mu') - error(mu') > S(AGC),
\* the candidate is rejected and the radius multiplied by shrink_factor
\* once; the pass calls neither extend (the full-model solve) nor
\* fom_output nor fom_gradient, only reject, and no pending pair exists at
\* any point of it.
C21_PessimisticCase ==
    [][/\ (/\ pc = "classify"
            /\ ~Less(Plus(current_output, estimate_output), compare_output)
            /\ Less(compare_output, Plus(current_output, Neg(estimate_output))))
           => (/\ pc' = "commit"
               /\ rejected'
               /\ radius' = Times(radius, params.shrink_factor)
               /\ shrinks' = shrinks + 1
               /\ growths' = growths
               /\ calls = ProposalCalls
               /\ calls' = calls
               /\ surrogate' = surrogate
               /\ ~HasPending(surrogate))
       /\ (pc = "commit" /\ calls = ProposalCalls)
           => (/\ pc' = "guard"
               /\ calls' = Append(calls, "reject")
               /\ radius' = radius
               /\ shrinks' = shrinks
               /\ ~HasPending(surrogate')
               /\ Committed(surrogate') = iter_start.committed
               /\ mu' = iter_start.mu
               /\ histvars' = histvars
               /\ accepted' = accepted)
      ]_vars

C21_Witness ==
    /\ pc = "guard"
    /\ calls = Append(ProposalCalls, "reject")
    /\ iteration = 2
    /\ accepted = 1
    /\ shrinks = 1
    /\ mu = 1
    /\ radius = Times(params.radius, params.shrink_factor)

AmbiguousAcceptCalls ==
    ProposalCalls \o <<"extend", "new_rom_output", "fom_output">>

AmbiguousRejectCalls == ProposalCalls \o <<"extend", "new_rom_output">>

\* C22: when neither test holds the surrogate is extended at mu' and the
\* output of the pending rom at mu' is compared with S(AGC) of the committed
\* rom: if it is <= S(AGC) the candidate is accepted and the pending pair
\* committed; otherwise the candidate is rejected, the radius shrunk once,
\* the pending pair discarded and the committed pair left as it was.
C22_AmbiguousCase ==
    [][/\ (/\ pc = "classify"
            /\ ~(current_output + estimate_output < compare_output)
            /\ ~(compare_output < current_output - estimate_output))
           => (/\ pc' = "commit"
               /\ calls = ProposalCalls
               /\ ~HasPending(surrogate)
               /\ \E outcome \in Outcomes :
                     surrogate' = extend(surrogate, mu, outcome).s
               /\ HasPending(surrogate')
               /\ Committed(surrogate') = Committed(surrogate)
               /\ call'.name = "new_rom_output" /\ call'.mu = mu
               /\ compare_output' = compare_output
               /\ IF current_output' <= compare_output
                  THEN /\ ~rejected'
                       /\ calls' = AmbiguousAcceptCalls
                       /\ shrinks' = shrinks
                  ELSE /\ rejected'
                       /\ calls' = AmbiguousRejectCalls
                       /\ radius' = Times(radius, params.shrink_factor)
                       /\ shrinks' = shrinks + 1
                       /\ growths' = growths)
       /\ (pc = "commit" /\ calls = AmbiguousAcceptCalls)
           => (/\ data'.mus = Append(data.mus, mu)
               /\ mu' = mu
               /\ Committed(surrogate') = Pending(surrogate)
               /\ ~HasPending(surrogate')
               /\ accepted' = accepted + 1
               /\ calls' = calls \o <<"fom_gradient", "accept">>)
       /\ (pc = "commit" /\ calls = AmbiguousRejectCalls)
           => (/\ pc' = "guard"
               /\ mu' = iter_start.mu
               /\ histvars' = histvars
               /\ Committed(surrogate') = iter_start.committed
               /\ ~HasPending(surrogate')
               /\ radius' = radius
               /\ shrinks' = shrinks
               /\ accepted' = accepted
               /\ calls' = Append(calls, "reject"))
      ]_vars

\* an ambiguous pass rejected after an accepted pass
C22_Witness ==
    /\ pc = "guard"
    /\ iteration = 2
    /\ accepted = 1
    /\ data.subproblem_data # << >>
    /\ calls = Append(AmbiguousRejectCalls, "reject")
    /\ call.name = "reject"
    /\ Committed(surrogate) = iter_start.committed
    /\ shrinks = 1

\* C23 as stated: in an accepted pass the radius is divided by shrink_factor
\* if and only if the drop of the full-model output over the pass (output
\* at the previously accepted iterate minus output at the candidate) is at
\* least radius_tol times the drop of the pre-extension surrogate output
\* over the pass; otherwise the radius is unchanged.  Stated for an exact
\* reductor, whose full-model output is the function params.reductor.output.
C23_GrowthByRealizedDrop ==
    [][(pc = "classify" /\ ~rejected')
       => LET F == params.reductor.output
              fom_drop == F[iter_start.mu] - F[mu]
              rom_drop == old_rom_output - current_output
          IN IF params.radius_tol.den * fom_drop >= params.radius_tol.num * rom_drop
             THEN /\ radius' = Over(radius, params.shrink_factor)
                  /\ growths' = growths + 1
             ELSE /\ radius' = radius
                  /\ growths' = growths
      ]_vars

\* C24 as stated: an accepted candidate of the ambiguous case grows the
\* radius exactly when the optimistic case would, for the same full-model
\* outputs and the same pre-extension surrogate outputs: the test is
\* fom_output_diff >= radius_tol * (old_rom_output - S(mu')) with S(mu') the
\* output of the rom committed before the extension.
C24_SameGrowthTest ==
    [][(pc = "classify" /\ calls' = AmbiguousAcceptCalls)
       => LET fom_output_diff == old_fom_output - current_fom_output'
              rom_output_diff == old_rom_output - current_output
          IN (growths' = growths + 1) <=>
               (params.radius_tol.den * fom_output_diff
                  >= params.radius_tol.num * rom_output_diff)
      ]_vars

\* estimate / |value| < x for a float x, false when the quotient is nan
RatioBelow(output_error, current_value, x) ==
    LET a == IF current_value < 0 THEN 0 - current_value ELSE current_value
    IN /\ a # 0
       /\ IF x.e >= 0 THEN output_error < a * x.m * Pow(2, x.e)
          ELSE output_error * Pow(2, 0 - x.e) < a * x.m

\* C25 as stated: the criterion lets a step through (returns False) only if
\* estimate_output_error(candidate) / |current value| < beta * radius, the
\* estimate being that of the committed rom and the radius the one of the
\* pass in progress, after all earlier shrinks and growths.
C25_AcceptsOnlyBelowBound ==
    (pc = "propose" /\ line_search.called /\ ~line_search.result)
    => /\ line_search.rom = surrogate.rom
       /\ ExactRadius
       /\ RatioBelow(line_search.output_error, line_search.current_value,
                     Times(params.beta, radius))

\* C25 as amended: the criterion returns True exactly when the ratio is
\* >= beta * radius; it lets a step through when the ratio is below the
\* bound and also when it is nan (a zero estimate at a zero value).
C25_AcceptsBelowBoundOrNaN ==
    (pc = "propose" /\ line_search.called)
    => LET below == RatioBelow(line_search.output_error,
                               line_search.current_value,
                               Times(params.beta, radius))
           isnan == line_search.output_error = 0 /\ line_search.current_value = 0
       IN /\ line_search.rom = surrogate.rom
          /\ ~HasPending(surrogate)
          /\ ExactRadius
          /\ ~line_search.result <=> (below \/ isnan)

\* after a shrink the criterion refuses a ratio it let through before
C25_Witness ==
    /\ pc = "propose"
    /\ line_search.called
    /\ line_search.result
    /\ shrinks = 1
    /\ growths = 0
    /\ line_search.output_error = 1
    /\ line_search.current_value = 1
    /\ ~GreaterEq(Quotient(1, 1), Times(params.beta, params.radius))

\* C26: extend(mu) changes neither the committed (reductor, rom) pair nor
\* the reductor object the caller supplied, whether the try block succeeds
\* or raises: the enrichment acts on a copy, so the committed basis is the
\* same until accept; each extend makes exactly one full-model solve.
C26_ExtendLeavesCommitted ==
    /\ surrogate.caller = CallerReductor
    /\ (call.name = "extend" /\ call.exc = NoExc)
       => /\ Committed(surrogate) = Committed(before)
          /\ surrogate.caller = before.caller
          /\ call.solves = 1
          /\ call.tried = "ok"
             => /\ surrogate.new_reductor.id \notin
                     {before.caller.id, before.reductor.id}
                /\ surrogate.new_reductor.basis
                     = before.reductor.basis \cup {call.mu}
          /\ call.tried = "raised" => Pending(surrogate) = Committed(before)

\* a successful extend at a point outside the committed basis, and the
\* committed basis still without it
C26_Witness ==
    /\ call.name = "extend"
    /\ call.exc = NoExc
    /\ call.tried = "ok"
    /\ call.mu \notin surrogate.reductor.basis
    /\ call.mu \in surrogate.new_reductor.basis
    /\ surrogate.reductor.basis # {}

\* C27: at a termination check with iteration < miniter the run neither
\* returns nor raises, even with first_order_criticality < tol_criticality
\* or iteration >= maxiter; at a check with iteration >= miniter where both
\* first_order_criticality < tol_criticality and iteration >= maxiter hold,
\* the run returns and does not raise.
C27_GatedAndOrdered ==
    [][pc = "check"
       => (/\ iteration < params.miniter
              => (pc' = "propose" /\ exc' = NoExc /\ result' = NoResult)
           /\ (/\ iteration >= params.miniter
               /\ first_order_criticality < params.tol_criticality
               /\ iteration >= params.maxiter)
              => (/\ pc' = "returned"
                  /\ exc' = NoExc
                  /\ result'.iterations = iteration))
      ]_vars

\* a run that passed a check below miniter with the criticality below the
\* tolerance and the budget used up, and returned at the next check
C27_Witness ==
    /\ pc = "returned"
    /\ params.miniter = 2
    /\ params.maxiter = 1
    /\ params.tol_criticality = 1
    /\ foc_norms = <<0, 0>>
    /\ result.iterations = 2

\* C28: the reference value S(AGC) of a pass is the output of the rom
\* committed before any extend of the pass at the second entry of the
\* subproblem's iterate sequence when that has more than one entry, and at
\* its first entry, the starting point, otherwise; S(mu') and error(mu') of
\* the three-way test are evaluated on the same rom, before any extend.
\* Stated for an exact reductor, whose rom output is params.reductor.output.
C28_ReferenceValue ==
    /\ [](pc = "classify"
          => LET F == params.reductor.output
                 trace == sub_data.mus
             IN /\ trace[1] = iter_start.mu
                /\ Len(trace) > 1 => compare_output = F[trace[2]]
                /\ Len(trace) = 1 => compare_output = F[iter_start.mu]
                /\ current_output = F[mu]
                /\ estimate_output = 0
                /\ calls = ProposalCalls
                /\ ~HasPending(surrogate)
                /\ Committed(surrogate) = iter_start.committed)
    /\ [][pc = "classify"
          => (/\ compare_output' = compare_output
              /\ estimate_output' = estimate_output
              /\ Len(calls') > Len(calls) => calls'[Len(calls) + 1] = "extend")
         ]_vars

\* a pass whose trace has a second entry with another output than the
\* starting point and than the candidate
C28_Witness ==
    /\ pc = "classify"
    /\ params.reductor.exact
    /\ Len(sub_data.mus) = 2
    /\ iteration = 2
    /\ compare_output # params.reductor.output[sub_data.mus[1]]
    /\ compare_output # current_output

\* C29: first_order_criticality is +infinity until the first acceptance and
\* rejected passes do not change it, so a run returns only after at least
\* one accepted pass: for every miniter, 0 included, a returned run has
\* iterations >= max(1, miniter), at least two entries in mus and
\* first_order_criticality < tol_criticality.
C29_ReturnsOnlyAfterAcceptance ==
    /\ [](/\ (accepted = 0 /\ pc # "start") => first_order_criticality = Inf
          /\ pc = "returned"
               => (/\ accepted >= 1
                   /\ result.iterations >= 1
                   /\ result.iterations >= params.miniter
                   /\ Len(result.mus) >= 2
                   /\ Len(result.mus) = accepted + 1
                   /\ first_order_criticality < params.tol_criticality))
    /\ [][(pc = "commit" /\ rejected)
            => first_order_criticality' = first_order_criticality
         ]_vars

\* a run with miniter = 0 whose first pass was rejected and which returned
\* after the second
C29_Witness ==
    /\ pc = "returned"
    /\ params.miniter = 0
    /\ rejections = 1
    /\ accepted = 1
    /\ result.iterations = 2
    /\ result.mus = <<0, 1>>
    /\ foc_norms = <<0>>

\* C30: at every termination check the working mu is the last entry of
\* data['mus'] (the initial guess when nothing was accepted yet), after any
\* sequence of accepted and rejected passes; the mu returned on success is
\* the last entry of the returned mus.
C30_WorkingMuIsLastAccepted ==
    /\ pc \in {"check", "propose", "guard", "returned"}
         => (/\ Len(data.mus) = accepted + 1
             /\ data.mus[1] = params.initial_guess
             /\ mu = data.mus[Len(data.mus)])
    /\ pc = "returned"
         => (/\ result.mus = data.mus
             /\ result.mu = result.mus[Len(result.mus)])

\* a run that returned after an accepted and then a rejected pass with
\* another candidate
C30_Witness ==
    /\ pc = "returned"
    /\ params.miniter = 2
    /\ accepted = 1
    /\ rejections = 1
    /\ result.mu = 1
    /\ result.mus = <<0, 1>>
    /\ update_norms = <<1>>
    /\ call.name = "reject"
====
